---------------------------- MODULE Spec2Model ----------------------------
(***************************************************************************)
(* Media fetch adapter (src/src/client.py): generate_images, the image     *)
(* batch loop with its b64_json -> url fallback, the url / base64 savers,   *)
(* the video request and the bounded video download poll, and the path      *)
(* guard applied before every write.                                        *)
(*                                                                         *)
(* One call of generate_images is one behaviour.  Every await on the       *)
(* network is two steps (send, then the response chosen by the server);    *)
(* everything between two awaits is one step.                              *)
(***************************************************************************)
EXTENDS Integers, Sequences, FiniteSets, TLC

VARIABLES
    video_config,   \* TRUE when generate_images got a video configuration
    n,              \* the requested count
    source_image,   \* "none", or the source image file: "readable" or "missing"
    pc,             \* position of the coroutine
    remaining,      \* generate_images: images still to request
    all_filenames,  \* generate_images: accumulated result
    current_n,      \* generate_images: size of the batch in progress
    response_format,\* _generate_batch: payload["response_format"]
    stage,          \* _generate_batch: "first" (try body) or "fallback" (handler)
    resp,           \* body of the generation response being processed, as received
    data,           \* data["data"] as the code holds it (after the url rewrite)
    idx,            \* _save_*_images: index of the item in hand (1-based)
    filenames,      \* _save_*_images: names saved so far by this call of the saver
    stamp,          \* _save_*: the timestamp and short_id of this call of the saver
    decoded,        \* items base64-decoded since the last generation POST
    gets,           \* image GETs issued since the last generation POST, in order
    posts,          \* every generation POST of the call, in order
    inflight,       \* network requests sent and not yet answered
    files,          \* files written under the output directory
    outcome,        \* "running", "returned" or "raised"
    error,          \* the exception the call raised
    batch_results,  \* history: the list each finished _generate_batch returned
    batch_error,    \* history: the exception that left _generate_batch
    caught,         \* _generate_batch: e, the exception its handler caught (read by the
                    \* "API error" test and the warning; forgotten once the url answer is in)
    vresp,          \* _generate_video: the answer to the generation POST, as received
    full_content,   \* _generate_video: the text content taken from the answer
    video_url,      \* _generate_video: the URL handed to the download
    attempt,        \* _save_video_from_url: loop variable
    last_error,     \* _save_video_from_url: last observed not-ready condition
    trace,          \* _save_video_from_url: its GETs and sleeps, in order
    vget,           \* _save_video_from_url: the answer to its latest GET
    gname,          \* path guard probe: the name under test
    gverdict,       \* path guard probe: "untested", "accepted" or "rejected"
    b64_B,          \* re-pad and decode on its own: the bytes that were encoded
    b64_data,       \* _save_b64_images: item["b64_json"], as received
    image_bytes,    \* _save_b64_images: what base64.b64decode gave
    dl_kind,        \* extension choice on its own: "image" or "video" download
    content_type,   \* _save_url_images, _save_video_from_url: the content-type header
    dl_url,         \* _save_url_images, _save_video_from_url: the URL downloaded
    dl_ext          \* _save_url_images, _save_video_from_url: ext, the extension chosen

vars == <<video_config, n, source_image, pc, remaining, all_filenames, current_n,
          response_format, stage, resp, data, idx, filenames, stamp, decoded,
          gets, posts, inflight, files, outcome, error, batch_results,
          batch_error, caught, vresp, full_content, video_url,
          attempt, last_error, trace, vget, gname, gverdict,
          b64_B, b64_data, image_bytes, dl_kind, content_type, dl_url, dl_ext>>

callVars  == <<video_config, n, source_image>>
loopVars  == <<remaining, all_filenames>>
histVars  == <<batch_results, batch_error, caught>>
saverLocals == <<data, idx, filenames, stamp>>
saveVars  == <<data, idx, filenames, stamp, decoded>>
videoVars == <<vresp, full_content, video_url, attempt, last_error, trace, vget>>
guardVars == <<gname, gverdict>>
stepVars  == <<b64_B, b64_data, image_bytes, dl_kind, content_type, dl_url, dl_ext>>

-----------------------------------------------------------------------------
(* Bounds of the model. *)

\* largest count n handed to generate_images
MaxCount == 5
\* largest number of items a generation response carries
MaxItems == 2
\* longest name (in characters) handed to the path guard probe
MaxNameLen == 5
\* longest text content (in characters) of a video response
MaxContent == 4
\* largest number of lines of a streamed video response
MaxLines == 3
\* longest byte sequence handed to the base64 round trip
MaxBytes == 4
\* the most negative count n handed to generate_images is -MaxNeg
MaxNeg == 3

(* Constants of the program. *)
\* a slip: batches of one image
BATCH_SIZE_one == 2 - 1
BATCH_SIZE == 2
\* a slip: one attempt short
max_retries_short == 12 - 1
max_retries == 12
MinVideoBytes == 1000

-----------------------------------------------------------------------------
(* Values *)

SeqsUpTo(S, k) == UNION {[1..m -> S] : m \in 0..k}

Min(a, b) == IF a < b THEN a ELSE b

NONE == "<absent>"
EMPTY == ""
\* unpadded base64 of b"hi": decodes after re-padding
B64OK == "aGk"
\* one data character: binascii.Error even after re-padding
B64BAD == "a"
\* a URL string; as base64 it raises binascii.Error
URLA == "http://a/1"
URLB == "http://b/2.png"
URLJ == "http://c/3.jpg"
URLW == "http://d/4.webp"

StartsWithHttp(s) == s \in {URLA, URLB, URLJ, URLW}

\* the suffix of a URL string, as str.endswith sees it
Suffix(u) ==
    CASE u = URLB -> ".png"
      [] u = URLJ -> ".jpg"
      [] u = URLW -> ".webp"
      [] OTHER    -> ""

\* a slip: the string is decoded as it came, without re-padding
DecodableNoRepad(s) == s \in {EMPTY}

\* base64.b64decode of the re-padded string succeeds
Decodable(s) == s \in {B64OK, URLB, EMPTY}

\* the items a generation response may carry
Items == {[b64_json |-> b, url |-> NONE] : b \in {NONE, B64OK, B64BAD, URLA}}
         \cup {[b64_json |-> NONE, url |-> URLB], [b64_json |-> URLA, url |-> URLB]}

NoResp == [kind |-> "none", items |-> <<>>]

\* what the server may answer to POST /v1/images/generations
\*   transport: no response;  non200: status /= 200;  the others are 200 bodies
PostResponses ==
    {[kind |-> k, items |-> <<>>] :
        k \in {"transport", "non200", "notjson", "error", "nodata"}}
    \cup {[kind |-> "data", items |-> s] : s \in SeqsUpTo(Items, MaxItems)}

NoExc == [type |-> "none", msg |-> "", last |-> ""]
Exc(t, m) == [type |-> t, msg |-> m, last |-> ""]

\* "API error" in str(e)
ApiErrorIn(msg) == msg \in {"API error (HTTP)", "API error"}

-----------------------------------------------------------------------------
(* Paths.  A path is a sequence of characters; "output", "cwd", "x" and the *)
(* extensions stand for runs of ordinary characters, "/" and "." are        *)
(* themselves, so that ".." is <<".", ".">>.                                *)

OUTPUT == <<"output">>
CWD == <<"/", "cwd">>
PARDIR == <<".", ".">>
CURDIR == <<".">>

StartsWith(s, p) == Len(s) >= Len(p) /\ SubSeq(s, 1, Len(p)) = p

IsAbs(p) == Len(p) > 0 /\ p[1] = "/"

\* os.path.join(a, b)
Join(a, b) ==
    IF IsAbs(b) THEN b
    ELSE IF a = <<>> \/ a[Len(a)] = "/" THEN a \o b
    ELSE a \o <<"/">> \o b

RECURSIVE SplitAcc(_, _, _)
SplitAcc(p, cur, acc) ==
    IF p = <<>> THEN Append(acc, cur)
    ELSE IF Head(p) = "/" THEN SplitAcc(Tail(p), <<>>, Append(acc, cur))
    ELSE SplitAcc(Tail(p), Append(cur, Head(p)), acc)

\* path.split("/")
Split(p) == SplitAcc(p, <<>>, <<>>)

RECURSIVE JoinComps(_)
JoinComps(comps) ==
    IF comps = <<>> THEN <<>>
    ELSE IF Len(comps) = 1 THEN comps[1]
    ELSE comps[1] \o <<"/">> \o JoinComps(Tail(comps))

\* the loop of os.path.normpath over the components
RECURSIVE NormComps(_, _, _)
NormComps(comps, new, initial) ==
    IF comps = <<>> THEN new
    ELSE LET c == Head(comps) IN
         IF c = <<>> \/ c = CURDIR THEN NormComps(Tail(comps), new, initial)
         ELSE IF \/ c # PARDIR
                 \/ (initial = 0 /\ new = <<>>)
                 \/ (new # <<>> /\ new[Len(new)] = PARDIR)
              THEN NormComps(Tail(comps), Append(new, c), initial)
         ELSE IF new # <<>>
              THEN NormComps(Tail(comps), SubSeq(new, 1, Len(new) - 1), initial)
         ELSE NormComps(Tail(comps), new, initial)

InitialSlashes(p) ==
    IF ~IsAbs(p) THEN 0
    ELSE IF StartsWith(p, <<"/", "/">>) /\ ~StartsWith(p, <<"/", "/", "/">>) THEN 2
    ELSE 1

\* os.path.normpath
normpath(p) ==
    LET initial == InitialSlashes(p)
        lead == IF initial = 2 THEN <<"/", "/">>
                ELSE IF initial = 1 THEN <<"/">> ELSE <<>>
    \* split, the loop over the components, the join: each stage reads the
    \* value of the stage before it
    IN CHOOSE r \in {IF lead \o body = <<>> THEN CURDIR ELSE lead \o body :
                      body \in {JoinComps(new) :
                          new \in {NormComps(comps, <<>>, initial) :
                              comps \in {Split(p)}}}} : TRUE

\* os.path.abspath
abspath(p) == normpath(IF IsAbs(p) THEN p ELSE Join(CWD, p))

\* the test before every write: abspath(filepath).startswith(abspath("output"))
PathGuard(filepath) == StartsWith(abspath(filepath), abspath(OUTPUT))

\* the components of a normalised absolute path
Components(p) == SelectSeq(Split(p), LAMBDA c : c # <<>>)

\* the path is the output directory or lies below it
InsideOutput(p) == StartsWith(Components(p), Components(abspath(OUTPUT)))

-----------------------------------------------------------------------------
(* File names *)

\* f"{timestamp}_{short_id}_{idx}.{ext}"; the video name has no index (0)
FileName(st, i, ext) == [stamp |-> st, idx |-> i, ext |-> ext]

\* the characters of a constructed name: digits, hex digits and "_", then ".ext"
NameStr(f) == <<"x", ".", f.ext>>

FilePath(f) == Join(OUTPUT, NameStr(f))

\* open(filepath, "wb"): the file and the place it lands
WrittenFile(f) == [name |-> f, path |-> abspath(FilePath(f))]

\* the content type an image download carries
CTypes == {"image/png"}

\* _save_url_images: extension from content-type or URL
ImageExt(ct, u) ==
    IF ct \in {"image/jpeg", "image/jpg"} \/ Suffix(u) = ".jpg"
    THEN "jpg"
    ELSE IF ct = "image/png" \/ Suffix(u) = ".png"
    THEN "png"
    ELSE "jpg"

-----------------------------------------------------------------------------
(* The image flow: generate_images and _generate_batch *)

ImagePost(k, fmt) ==
    [endpoint |-> "/v1/images/generations", n |-> k, response_format |-> fmt]

Truthy(v) == v \notin {NONE, EMPTY}

\* a slip: the handler catches every exception (except Exception)
CaughtEvery(e) == ~ApiErrorIn(e.msg)

\* a slip: the handler without its "API error" test
CaughtAny(e) == e.type \in {"KeyError", "ValueError"}

\* except (KeyError, ValueError) with the "API error" test of its first line
Caught(e) == e.type \in {"KeyError", "ValueError"} /\ ~ApiErrorIn(e.msg)

\* the exception the try body raises on the first response, before any saver runs
FirstExc(r) ==
    CASE r.kind = "transport" -> Exc("TransportError", "")
      [] r.kind = "non200"    -> Exc("ValueError", "API error (HTTP)")
      [] r.kind = "notjson"   -> Exc("ValueError", "Expecting value")
      [] r.kind = "error"     -> Exc("ValueError", "API error")
      [] r.kind = "nodata"    -> Exc("ValueError", "No image data in response")
      [] r.kind = "data" ->
            IF r.items = <<>> THEN Exc("ValueError", "No image data in response")
            ELSE IF Truthy(r.items[1].b64_json) \/ Truthy(r.items[1].url) THEN NoExc
            ELSE Exc("ValueError", "Unknown response format")

\* a slip: the url field is preferred to b64_json
UrlRewritePreferUrl(item) ==
    [b64_json |-> NONE,
     url |-> IF item.url # NONE THEN item.url
             ELSE IF item.b64_json # NONE THEN item.b64_json ELSE EMPTY]

\* item["url"] = item.pop("b64_json", item.get("url", ""))
UrlRewrite(item) ==
    [b64_json |-> NONE,
     url |-> IF item.b64_json # NONE THEN item.b64_json
             ELSE IF item.url # NONE THEN item.url ELSE EMPTY]

\* the saver the try body picks for a usable first response, and the list it hands it
FirstSaver(r) ==
    LET first == r.items[1] IN
    IF Truthy(first.b64_json) /\ StartsWithHttp(first.b64_json)
    THEN [saver |-> "save_url", data |-> [i \in 1..Len(r.items) |-> UrlRewrite(r.items[i])]]
    ELSE IF Truthy(first.b64_json)
    THEN [saver |-> "save_b64", data |-> r.items]
    ELSE [saver |-> "save_url", data |-> r.items]

\* the exception the handler raises on the response to the url-format request
FallbackExc(r) ==
    CASE r.kind = "transport" -> Exc("TransportError", "")
      [] r.kind = "non200"    -> Exc("ValueError", "API error (HTTP)")
      [] r.kind = "notjson"   -> Exc("ValueError", "Expecting value")
      [] r.kind = "error"     -> Exc("ValueError", "API error")
      [] r.kind = "nodata"    -> Exc("ValueError", "Empty response data")
      [] r.kind = "data" ->
            IF r.items = <<>> THEN Exc("ValueError", "Empty response data")
            ELSE IF r.items[1].url # NONE THEN NoExc
            ELSE Exc("ValueError", "No valid image data in response")

\* the exception is caught by except (KeyError, ValueError) and is no API error
Handle(e, infl) ==
    /\ caught' = e
    /\ inflight' = infl
    /\ pc' = "handler"
    /\ UNCHANGED <<loopVars, batch_results, batch_error, response_format, stage,
                   posts, saverLocals, outcome, error>>

\* a slip: generate_images re-raises whatever was collected
PropagateAlways(e, infl) ==
    /\ inflight' = infl
    /\ pc' = "done"
    /\ outcome' = "raised"
    /\ error' = e
    /\ batch_error' = e
    /\ UNCHANGED <<loopVars, batch_results, response_format, stage, posts,
                   saverLocals>>

\* the exception leaves _generate_batch; generate_images re-raises it when nothing
\* was collected and returns what was collected otherwise
Propagate(e, infl) ==
    /\ inflight' = infl
    /\ pc' = "done"
    /\ outcome' = IF all_filenames = <<>> THEN "raised" ELSE "returned"
    /\ error' = IF all_filenames = <<>> THEN e ELSE NoExc
    /\ batch_error' = e
    /\ UNCHANGED <<loopVars, batch_results, response_format, stage, posts,
                   saverLocals>>

\* an exception raised while _generate_batch runs
Raise(e, infl) ==
    IF stage = "first" /\ Caught(e)
    THEN Handle(e, infl)
    ELSE Propagate(e, infl) /\ UNCHANGED caught

\* a saver is entered with the list d
EnterSaver(saver, d, infl) ==
    /\ data' = d
    /\ idx' = 1
    /\ filenames' = <<>>
    /\ stamp' = Len(posts)
    /\ inflight' = infl
    /\ pc' = saver
    /\ UNCHANGED <<loopVars, batch_results, batch_error, response_format, stage, posts,
                   outcome, error>>

\* a slip: every batch asks for a full BATCH_SIZE
CurrentNFull(r) == BATCH_SIZE

\* current_n = min(remaining, BATCH_SIZE)
CurrentN(r) == Min(r, BATCH_SIZE)

CallImages ==
    /\ pc = "start"
    /\ ~video_config
    /\ remaining' = n
    /\ all_filenames' = <<>>
    /\ pc' = "loop"
    /\ UNCHANGED <<callVars, histVars, current_n, response_format, stage, resp,
                   saveVars, gets, posts, inflight, files, outcome, error,
                   videoVars, guardVars, stepVars>>

\* while remaining > 0: the batch's first request is sent
BatchStart ==
    /\ pc = "loop"
    /\ remaining > 0
    /\ current_n' = CurrentN(remaining)
    /\ caught' = NoExc
    /\ response_format' = "b64_json"
    /\ stage' = "first"
    /\ resp' = NoResp
    /\ data' = <<>>
    /\ idx' = 0
    /\ filenames' = <<>>
    /\ stamp' = 0
    /\ decoded' = 0
    /\ gets' = <<>>
    /\ posts' = Append(posts, ImagePost(current_n', "b64_json"))
    /\ inflight' = inflight + 1
    /\ pc' = "post1"
    /\ UNCHANGED <<callVars, loopVars, batch_results, batch_error, files, outcome,
                   error, videoVars, guardVars, stepVars>>

\* the loop ends: return all_filenames
Return ==
    /\ pc = "loop"
    /\ remaining <= 0
    /\ outcome' = "returned"
    /\ pc' = "done"
    /\ UNCHANGED <<callVars, loopVars, histVars, current_n, response_format, stage, resp,
                   saveVars, gets, posts, inflight, files, error, videoVars, guardVars, stepVars>>

\* the answer to the b64_json request
Post1Response ==
    /\ pc = "post1"
    /\ \E r \in PostResponses :
        /\ resp' = r
        /\ gets' = <<>>
        /\ decoded' = 0
        /\ IF FirstExc(r) # NoExc
           THEN Raise(FirstExc(r), inflight - 1)
           ELSE /\ EnterSaver(FirstSaver(r).saver, FirstSaver(r).data, inflight - 1)
                /\ UNCHANGED caught
    /\ UNCHANGED <<callVars, current_n, files, videoVars, guardVars, stepVars>>

\* a slip: the handler asks again for the full batch size
FallbackFull ==
    /\ pc = "handler"
    /\ response_format' = "url"
    /\ stage' = "fallback"
    /\ resp' = NoResp
    /\ data' = <<>>
    /\ idx' = 0
    /\ filenames' = <<>>
    /\ stamp' = 0
    /\ decoded' = 0
    /\ gets' = <<>>
    /\ posts' = Append(posts, ImagePost(BATCH_SIZE, "url"))
    /\ inflight' = inflight + 1
    /\ pc' = "post2"
    /\ UNCHANGED <<callVars, loopVars, histVars, current_n, files, outcome, error,
                   videoVars, guardVars, stepVars>>

\* the handler: payload["response_format"] = "url" and the request is sent again
\* (the saver that raised is gone, and its locals with it)
Fallback ==
    /\ pc = "handler"
    /\ response_format' = "url"
    /\ stage' = "fallback"
    /\ resp' = NoResp
    /\ data' = <<>>
    /\ idx' = 0
    /\ filenames' = <<>>
    /\ stamp' = 0
    /\ decoded' = 0
    /\ gets' = <<>>
    /\ posts' = Append(posts, ImagePost(current_n, "url"))
    /\ inflight' = inflight + 1
    /\ pc' = "post2"
    /\ UNCHANGED <<callVars, loopVars, histVars, current_n, files, outcome, error,
                   videoVars, guardVars, stepVars>>

\* the answer to the url request
Post2Response ==
    /\ pc = "post2"
    /\ \E r \in PostResponses :
        /\ resp' = r
        /\ gets' = <<>>
        /\ decoded' = 0
        /\ caught' = NoExc
        /\ IF FallbackExc(r) # NoExc
           THEN Propagate(FallbackExc(r), inflight - 1)
           ELSE EnterSaver("save_url", r.items, inflight - 1)
    /\ UNCHANGED <<callVars, current_n, files, videoVars, guardVars, stepVars>>

\* _save_b64_images: one turn of the loop
SaveB64Item ==
    /\ pc = "save_b64"
    /\ idx <= Len(data)
    /\ LET item == data[idx]
           filename == FileName(stamp, idx, "png")
       IN IF item.b64_json = NONE
          THEN /\ Raise(Exc("KeyError", "'b64_json'"), inflight)
               /\ UNCHANGED <<decoded, files>>
          ELSE IF ~Decodable(item.b64_json)
          THEN /\ Raise(Exc("ValueError", "binascii.Error"), inflight)
               /\ UNCHANGED <<decoded, files>>
          ELSE IF ~PathGuard(FilePath(filename))
          THEN /\ Raise(Exc("ValueError", "Invalid file path"), inflight)
               /\ decoded' = decoded + 1
               /\ UNCHANGED files
          ELSE /\ decoded' = decoded + 1
               /\ files' = files \cup {WrittenFile(filename)}
               /\ filenames' = Append(filenames, filename)
               /\ idx' = idx + 1
               /\ UNCHANGED <<data, stamp, pc, loopVars, histVars, response_format, stage,
                              posts, inflight, outcome, error>>
    /\ UNCHANGED <<callVars, current_n, resp, gets, videoVars, guardVars, stepVars>>

\* a slip: the downloads of a batch are started together (asyncio.gather)
SendGetAll ==
    /\ pc = "save_url"
    /\ idx <= Len(data)
    /\ IF data[idx].url = NONE
       THEN /\ Raise(Exc("KeyError", "'url'"), inflight)
            /\ UNCHANGED gets
       ELSE /\ gets' = gets \o [i \in 1..(Len(data) - idx + 1) |-> data[idx + i - 1].url]
            /\ inflight' = inflight + (Len(data) - idx + 1)
            /\ pc' = "get"
            /\ UNCHANGED <<loopVars, histVars, response_format, stage, posts, outcome, error,
                           saverLocals>>
    /\ UNCHANGED <<callVars, current_n, resp, decoded, files, videoVars, guardVars, stepVars>>

\* _save_url_images: item["url"] and client.get(image_url)
SendGet ==
    /\ pc = "save_url"
    /\ idx <= Len(data)
    /\ IF data[idx].url = NONE
       THEN /\ Raise(Exc("KeyError", "'url'"), inflight)
            /\ UNCHANGED gets
       ELSE /\ gets' = Append(gets, data[idx].url)
            /\ inflight' = inflight + 1
            /\ pc' = "get"
            /\ UNCHANGED <<loopVars, histVars, response_format, stage, posts, outcome, error,
                           saverLocals>>
    /\ UNCHANGED <<callVars, current_n, resp, decoded, files, videoVars, guardVars, stepVars>>

\* what a GET of an image URL may bring
GetOutcomes(u) ==
    IF StartsWithHttp(u)
    THEN {[kind |-> "transport", ctype |-> ""], [kind |-> "status", ctype |-> ""]}
         \cup {[kind |-> "ok", ctype |-> ct] : ct \in CTypes}
    ELSE {[kind |-> "transport", ctype |-> ""]}

\* _save_url_images: the answer to the GET, the extension, the guard and the write
GetResponse ==
    /\ pc = "get"
    /\ \E o \in GetOutcomes(data[idx].url) :
        LET filename == FileName(stamp, idx, ImageExt(o.ctype, data[idx].url)) IN
        IF o.kind = "transport"
        THEN /\ Raise(Exc("TransportError", ""), inflight - 1)
             /\ UNCHANGED <<decoded, files>>
        ELSE IF o.kind = "status"
        THEN /\ Raise(Exc("HTTPStatusError", ""), inflight - 1)
             /\ UNCHANGED <<decoded, files>>
        ELSE IF ~PathGuard(FilePath(filename))
        THEN /\ Raise(Exc("ValueError", "Invalid file path"), inflight - 1)
             /\ UNCHANGED <<decoded, files>>
        ELSE /\ files' = files \cup {WrittenFile(filename)}
             /\ filenames' = Append(filenames, filename)
             /\ idx' = idx + 1
             /\ inflight' = inflight - 1
             /\ pc' = "save_url"
             /\ UNCHANGED <<data, stamp, decoded, loopVars, histVars, response_format, stage,
                            posts, outcome, error>>
    /\ UNCHANGED <<callVars, current_n, resp, gets, videoVars, guardVars, stepVars>>

\* all_filenames.extend(filenames)
Extend(all, fs) == all \o fs

\* the saver returns, _generate_batch returns, generate_images extends its list
SaverReturn ==
    /\ pc \in {"save_b64", "save_url"}
    /\ idx > Len(data)
    /\ all_filenames' = Extend(all_filenames, filenames)
    /\ remaining' = remaining - current_n
    /\ batch_results' = Append(batch_results, filenames)
    /\ pc' = "loop"
    /\ UNCHANGED <<callVars, batch_error, caught, current_n, response_format, stage, resp, saveVars,
                   gets, posts, inflight, files, outcome, error, videoVars, guardVars, stepVars>>

-----------------------------------------------------------------------------
(* The video flow: _generate_video *)

(* Text content is a sequence of characters: "txt" stands for a run of     *)
(* ordinary characters without "http", " " is white space, HEAD is          *)
(* "http://" with the first character of what follows, VEXT is ".mp4".      *)
HEAD == "http://h"
VEXT == ".mp4"
ContentChars == {"txt", " ", HEAD, VEXT}

NoUrl == <<>>
\* the url field of choices[0].message, when the message has one
DirectUrl == <<HEAD, "/direct">>

\* the lines of a streamed body:
\*   done      data: [DONE]
\*   bad       data: <text json.loads rejects>
\*   error     data: <object with an "error" member>
\*   nodelta   data: <object without choices, or whose delta has no content>
\*   nonobject data: <JSON that is no object: "error" in chunk or chunk.get raises>
\*   nospace   data:<chunk>, without the blank the chunk prefix "data: " has
\*   piece     data: <object whose choices[0].delta.content is c>
SseLines ==
    {[t |-> k, c |-> ""] : k \in {"done", "bad", "error", "nodelta", "nonobject"}}
    \cup {[t |-> "nospace", c |-> "txt"]}
    \cup {[t |-> "piece", c |-> c] : c \in ContentChars}

NoVResp == [kind |-> "none", lines |-> <<>>, url |-> NoUrl, content |-> <<>>]

\* what the server may answer to POST /v1/chat/completions
VideoResponses ==
    {[kind |-> k, lines |-> <<>>, url |-> NoUrl, content |-> <<>>] :
        k \in {"transport", "non200", "empty", "notjson", "error", "nochoices"}}
    \cup {[kind |-> "message", lines |-> <<>>, url |-> u, content |-> c] :
            u \in {NoUrl, DirectUrl}, c \in SeqsUpTo(ContentChars, MaxContent)}
    \cup {[kind |-> "sse", lines |-> l, url |-> NoUrl, content |-> <<>>] :
            l \in SeqsUpTo(SseLines, MaxLines) \ {<<>>}}

\* the loop over the lines of a streamed body
RECURSIVE Assemble(_, _)
Assemble(lines, fc) ==
    IF lines = <<>> THEN [error |-> FALSE, exc |-> NoExc, content |-> fc]
    ELSE LET line == Head(lines) IN
         IF line.t = "error"
         THEN [error |-> TRUE, exc |-> Exc("ValueError", "API error"), content |-> fc]
         ELSE IF line.t = "nonobject"
         THEN [error |-> TRUE, exc |-> Exc("TypeError", ""), content |-> fc]
         ELSE IF line.t = "piece"
         THEN Assemble(Tail(lines), Append(fc, line.c))
         ELSE Assemble(Tail(lines), fc)

\* full_content
VideoContent(r) ==
    IF r.kind = "sse" THEN Assemble(r.lines, <<>>).content
    ELSE IF r.kind = "message" THEN r.content
    ELSE <<>>

MinOf(S) == CHOOSE x \in S : \A y \in S : x <= y
MaxOf(S) == CHOOSE x \in S : \A y \in S : x >= y

\* the last position of the run of non-delimiters that starts at i
RunEnd(c, i) == MaxOf({j \in i..Len(c) : \A k \in i..j : c[k] # " "})

\* re.findall(r'https?://[^\s<>")\]\\]+\.(?:mp4|webm|mov|avi)', c)[0], or <<>>
VideoExtMatch(c) ==
    LET starts == {i \in 1..Len(c) :
                     c[i] = HEAD /\ \E j \in (i+1)..RunEnd(c, i) : c[j] = VEXT}
    IN IF starts = {} THEN <<>>
       ELSE LET i == MinOf(starts)
                j == MaxOf({k \in (i+1)..RunEnd(c, i) : c[k] = VEXT})
            IN SubSeq(c, i, j)

\* re.findall(r'https?://[^\s<>")\]\\]+', c)[0], or <<>>
AnyUrlMatch(c) ==
    LET starts == {i \in 1..Len(c) : c[i] = HEAD}
    IN IF starts = {} THEN <<>>
       ELSE SubSeq(c, MinOf(starts), RunEnd(c, MinOf(starts)))

\* video_url
ExtractUrl(r) ==
    IF r.kind = "message" /\ r.url # NoUrl THEN r.url
    ELSE IF VideoExtMatch(VideoContent(r)) # <<>> THEN VideoExtMatch(VideoContent(r))
    ELSE AnyUrlMatch(VideoContent(r))

\* the exception _generate_video raises on the response, before any download
VideoExc(r) ==
    CASE r.kind = "transport" -> Exc("TransportError", "")
      [] r.kind = "non200"    -> Exc("ValueError", "API error (HTTP)")
      [] r.kind = "empty"     -> Exc("ValueError", "API returned empty response body")
      [] r.kind = "notjson"   -> Exc("ValueError", "Expecting value")
      [] r.kind = "error"     -> Exc("ValueError", "API error")
      [] OTHER ->
            IF r.kind = "sse" /\ Assemble(r.lines, <<>>).error
            THEN Assemble(r.lines, <<>>).exc
            ELSE IF VideoContent(r) = <<>>
            THEN Exc("ValueError", "No content in video API response")
            ELSE IF ExtractUrl(r) = <<>>
            THEN Exc("ValueError", "No video URL found in response")
            ELSE NoExc

\* a slip: the video request goes to the endpoint of the image flow
ChatPostToImages == [endpoint |-> "/v1/images/generations", n |-> 0, response_format |-> "none"]

\* client.post(url, json=payload, headers=headers), url = base_url/v1/chat/completions
ChatPost == [endpoint |-> "/v1/chat/completions", n |-> 0, response_format |-> "none"]

\* generate_images with a video configuration: the payload is built and posted
CallVideo ==
    /\ pc = "start"
    /\ video_config
    /\ IF source_image = "missing"
       THEN /\ outcome' = "raised"
            /\ error' = Exc("FileNotFoundError", "")
            /\ pc' = "done"
            /\ UNCHANGED <<posts, inflight>>
       ELSE /\ posts' = Append(posts, ChatPost)
            /\ inflight' = inflight + 1
            /\ pc' = "v_post"
            /\ UNCHANGED <<outcome, error>>
    /\ UNCHANGED <<callVars, loopVars, histVars, current_n, response_format, stage, resp,
                   saveVars, gets, files, videoVars, guardVars, stepVars>>

\* the answer to the video request, up to the entry of _save_video_from_url
VideoPostResponse ==
    /\ pc = "v_post"
    /\ \E r \in VideoResponses :
        /\ vresp' = r
        /\ full_content' = VideoContent(r)
        /\ inflight' = inflight - 1
        /\ IF VideoExc(r) # NoExc
           THEN /\ outcome' = "raised"
                /\ error' = VideoExc(r)
                /\ pc' = "done"
                /\ UNCHANGED <<video_url, stamp>>
           ELSE /\ video_url' = ExtractUrl(r)
                /\ stamp' = Len(posts)
                /\ pc' = "v_loop"
                /\ UNCHANGED <<outcome, error>>
    /\ UNCHANGED <<callVars, loopVars, histVars, current_n, response_format, stage, resp,
                   data, idx, filenames, decoded, gets, posts, files,
                   attempt, last_error, trace, vget, guardVars, stepVars>>

-----------------------------------------------------------------------------
(* The video download poll: _save_video_from_url *)

NoGet == [kind |-> "none", status |-> 0, size |-> 0]

VCTypes == {"video/mp4", "video/webm", ""}

\* what a GET of the video URL may bring
VideoGetOutcomes ==
    {[kind |-> "transport", status |-> 0, size |-> 0, ctype |-> ""]}
    \cup {[kind |-> "response", status |-> st, size |-> 0, ctype |-> ""] :
            st \in {404, 500}}
    \cup {[kind |-> "response", status |-> 200, size |-> z, ctype |-> ct] :
            z \in {999, 1000, 5000}, ct \in VCTypes}

\* _save_video_from_url: extension from content-type or URL
VideoExt(ct, u) ==
    IF ct = "video/mp4" \/ u[Len(u)] = VEXT
    THEN "mp4"
    ELSE IF ct = "video/webm" \/ u[Len(u)] = ".webm"
    THEN "webm"
    ELSE "mp4"

\* a slip: the sleep is not skipped on the first attempt
SleepBeforeAlways(a) == TRUE

\* if attempt > 0: sleep before the attempt
SleepBefore(a) == a > 0

\* a slip: every error status is taken for "not ready"
VideoNotReadyAnyStatus(o) ==
    /\ o.kind = "response"
    /\ \/ o.status \notin 200..299
       \/ (o.status \in 200..299 /\ o.size < MinVideoBytes)

\* status 404, or a 2xx body under 1000 bytes: continue with the next attempt
VideoNotReady(o) ==
    /\ o.kind = "response"
    /\ \/ o.status = 404
       \/ (o.status \in 200..299 /\ o.size < MinVideoBytes)

\* client.get raises, or raise_for_status does
VideoFails(o) ==
    \/ o.kind = "transport"
    \/ (o.status # 404 /\ o.status \notin 200..299)

\* await asyncio.sleep(retry_delay), before every attempt but the first
VideoSleep ==
    /\ pc = "v_loop"
    /\ attempt < max_retries
    /\ SleepBefore(attempt)
    /\ trace' = Append(trace, "sleep")
    /\ pc' = "v_send"
    /\ UNCHANGED <<callVars, loopVars, histVars, current_n, response_format, stage, resp,
                   saveVars, gets, posts, inflight, files, outcome, error,
                   vresp, full_content, video_url, attempt, last_error, vget, guardVars, stepVars>>

\* client.get(video_url)
VideoGetSend ==
    /\ \/ pc = "v_send"
       \/ (pc = "v_loop" /\ attempt < max_retries /\ ~SleepBefore(attempt))
    /\ trace' = Append(trace, "get")
    /\ inflight' = inflight + 1
    /\ vresp' = NoVResp
    /\ full_content' = <<>>
    /\ pc' = "v_get"
    /\ UNCHANGED <<callVars, loopVars, histVars, current_n, response_format, stage, resp,
                   saveVars, gets, posts, files, outcome, error,
                   video_url, attempt, last_error, vget, guardVars, stepVars>>

\* the answer to the GET: not ready, an error, or the file is written
VideoGetResponse ==
    /\ pc = "v_get"
    /\ \E o \in VideoGetOutcomes :
        LET filename == FileName(stamp, 0, VideoExt(o.ctype, video_url)) IN
        /\ vget' = [kind |-> o.kind, status |-> o.status, size |-> o.size]
        /\ inflight' = inflight - 1
        /\ IF VideoNotReady(o)
           THEN /\ last_error' = IF o.status = 404 THEN "404 Not Found"
                                 ELSE "File too small"
                /\ attempt' = attempt + 1
                /\ pc' = "v_loop"
                /\ UNCHANGED <<outcome, error, files, all_filenames>>
           ELSE IF VideoFails(o)
           THEN /\ outcome' = "raised"
                /\ error' = Exc(IF o.kind = "transport" THEN "TransportError"
                                ELSE "HTTPStatusError", "")
                /\ pc' = "done"
                /\ UNCHANGED <<attempt, last_error, files, all_filenames>>
           ELSE IF ~PathGuard(FilePath(filename))
           THEN /\ outcome' = "raised"
                /\ error' = Exc("ValueError", "Invalid file path")
                /\ pc' = "done"
                /\ UNCHANGED <<attempt, last_error, files, all_filenames>>
           ELSE /\ files' = files \cup {WrittenFile(filename)}
                /\ all_filenames' = <<filename>>
                /\ outcome' = "returned"
                /\ pc' = "done"
                /\ UNCHANGED <<attempt, last_error, error>>
    /\ UNCHANGED <<callVars, remaining, histVars, current_n, response_format,
                   stage, resp, saveVars, gets, posts, vresp, full_content, video_url,
                   trace, guardVars, stepVars>>

\* the loop is over: the terminal error, with last_error in its message
VideoExhausted ==
    /\ pc = "v_loop"
    /\ attempt >= max_retries
    /\ outcome' = "raised"
    /\ error' = [type |-> "ValueError", msg |-> "Video download failed",
                 last |-> last_error]
    /\ pc' = "done"
    /\ UNCHANGED <<callVars, loopVars, histVars, current_n, response_format, stage, resp,
                   saveVars, gets, posts, inflight, files, videoVars, guardVars, stepVars>>

-----------------------------------------------------------------------------
(* The path guard on its own: a name is joined to the output directory and  *)
(* put to the test that precedes every write.                               *)

NameChars == {"/", ".", "output", "x"}

GuardProbe ==
    /\ pc = "probe"
    /\ gverdict = "untested"
    /\ gverdict' = IF PathGuard(Join(OUTPUT, gname)) THEN "accepted" ELSE "rejected"
    /\ UNCHANGED <<callVars, pc, loopVars, histVars, current_n, response_format, stage, resp,
                   saveVars, gets, posts, inflight, files, outcome, error,
                   videoVars, gname, stepVars>>

-----------------------------------------------------------------------------
(* Re-pad and decode on its own (_save_b64_images, lines 195-200).  A base64 *)
(* string is a sequence of sextets 0..63 and of PAD, the character "=".     *)

PAD == 64

\* nothing decoded yet
NoBytes == [state |-> "none", bytes |-> <<>>]

\* the byte values the round trip is tried on
ByteVals == {0, 104, 255}

\* base64.b64encode, the standard encoding with its padding
RECURSIVE b64encode(_)
b64encode(B) ==
    IF Len(B) = 0 THEN <<>>
    ELSE IF Len(B) = 1
    THEN <<B[1] \div 4, (B[1] % 4) * 16, PAD, PAD>>
    ELSE IF Len(B) = 2
    THEN <<B[1] \div 4, (B[1] % 4) * 16 + B[2] \div 16, (B[2] % 16) * 4, PAD>>
    ELSE <<B[1] \div 4, (B[1] % 4) * 16 + B[2] \div 16,
           (B[2] % 16) * 4 + B[3] \div 64, B[3] % 64>>
         \o b64encode(SubSeq(B, 4, Len(B)))

\* the number of PAD characters that end S
RECURSIVE TrailingPads(_)
TrailingPads(S) ==
    IF S = <<>> \/ S[Len(S)] # PAD THEN 0
    ELSE 1 + TrailingPads(SubSeq(S, 1, Len(S) - 1))

\* S with none, some or all of its trailing padding removed
Strippings(S) == {SubSeq(S, 1, Len(S) - k) : k \in 0..TrailingPads(S)}

\* a slip: the string is decoded as it came
RepadNone(S) == S

\* missing_padding = len(b64_data) % 4; if missing_padding: b64_data += "=" * (4 - ...)
Repad(S) ==
    IF Len(S) % 4 # 0
    THEN S \o [i \in 1..(4 - (Len(S) % 4)) |-> PAD]
    ELSE S

\* binascii.a2b_base64 (not strict): sextets fill a quad, a byte leaves as soon
\* as its bits are in, padding that completes a quad ends the decoding, and an
\* unfinished quad at the end is binascii.Error
RECURSIVE a2b_base64(_, _, _, _, _)
a2b_base64(S, quad_pos, leftchar, pads, out) ==
    IF S = <<>>
    THEN IF quad_pos # 0 THEN [state |-> "error", bytes |-> <<>>]
         ELSE [state |-> "ok", bytes |-> out]
    ELSE LET ch == Head(S) IN
         IF ch = PAD
         THEN IF quad_pos >= 2 /\ quad_pos + pads + 1 >= 4
              THEN [state |-> "ok", bytes |-> out]
              ELSE a2b_base64(Tail(S), quad_pos, leftchar,
                              IF quad_pos >= 2 THEN pads + 1 ELSE pads, out)
         ELSE CASE quad_pos = 0 -> a2b_base64(Tail(S), 1, ch, 0, out)
                [] quad_pos = 1 ->
                     a2b_base64(Tail(S), 2, ch % 16, 0,
                                Append(out, leftchar * 4 + ch \div 16))
                [] quad_pos = 2 ->
                     a2b_base64(Tail(S), 3, ch % 4, 0,
                                Append(out, leftchar * 16 + ch \div 4))
                [] OTHER ->
                     a2b_base64(Tail(S), 0, 0, 0, Append(out, leftchar * 64 + ch))

\* base64.b64decode
b64decode(S) == a2b_base64(S, 0, 0, 0, <<>>)

\* the re-pad and the decoding of one item
RepadDecode ==
    /\ pc = "b64"
    /\ image_bytes = NoBytes
    /\ image_bytes' = b64decode(Repad(b64_data))
    /\ UNCHANGED <<callVars, pc, loopVars, histVars, current_n, response_format, stage, resp,
                   saveVars, gets, posts, inflight, files, outcome, error,
                   videoVars, guardVars, b64_B, b64_data, dl_kind, content_type,
                   dl_url, dl_ext>>

-----------------------------------------------------------------------------
(* The choice of the extension on its own (_save_url_images, lines 242-249, *)
(* and _save_video_from_url, lines 453-460).                                *)

\* content-type headers a download may carry
ExtCTypes == {"image/jpeg", "image/jpg", "image/png", "image/webp",
              "video/mp4", "video/webm", "text/html", ""}

\* the URLs of the downloads, by their suffixes
ImageUrls == {URLA, URLB, URLJ, URLW}
VideoUrls == {<<HEAD>>, <<HEAD, VEXT>>, <<HEAD, ".webm">>, <<HEAD, ".mov">>}

\* ext, as the saver of this kind of download computes it
ChooseExt ==
    /\ pc = "ext"
    /\ dl_ext = "none"
    /\ dl_ext' = IF dl_kind = "image" THEN ImageExt(content_type, dl_url)
                 ELSE VideoExt(content_type, dl_url)
    /\ UNCHANGED <<callVars, pc, loopVars, histVars, current_n, response_format, stage, resp,
                   saveVars, gets, posts, inflight, files, outcome, error,
                   videoVars, guardVars, b64_B, b64_data, image_bytes, dl_kind,
                   content_type, dl_url>>

-----------------------------------------------------------------------------
(* Specifications *)

Idle ==
    /\ remaining = 0
    /\ all_filenames = <<>>
    /\ current_n = 0
    /\ response_format = "none"
    /\ stage = "none"
    /\ resp = NoResp
    /\ data = <<>>
    /\ idx = 0
    /\ filenames = <<>>
    /\ stamp = 0
    /\ decoded = 0
    /\ gets = <<>>
    /\ posts = <<>>
    /\ inflight = 0
    /\ files = {}
    /\ outcome = "running"
    /\ error = NoExc
    /\ batch_results = <<>>
    /\ batch_error = NoExc
    /\ caught = NoExc
    /\ vresp = NoVResp
    /\ full_content = <<>>
    /\ video_url = NoUrl
    /\ attempt = 0
    /\ last_error = "None"
    /\ trace = <<>>
    /\ vget = NoGet

B64Idle ==
    /\ b64_B = <<>>
    /\ b64_data = <<>>
    /\ image_bytes = NoBytes

ExtIdle ==
    /\ dl_kind = "none"
    /\ content_type = ""
    /\ dl_url = ""
    /\ dl_ext = "none"

\* a call of generate_images(settings, prompt, n, video_config, source_image)
Init ==
    /\ pc = "start"
    /\ video_config \in BOOLEAN
    /\ n \in (0 - MaxNeg)..MaxCount
    /\ source_image \in (IF video_config THEN {"none", "readable", "missing"}
                         ELSE {"none"})
    /\ video_config => n \in {0, MaxCount}
    /\ Idle
    /\ B64Idle
    /\ ExtIdle
    /\ gname = <<>>
    /\ gverdict = "none"

Next ==
    \/ CallImages
    \/ BatchStart
    \/ Return
    \/ Post1Response
    \/ Fallback
    \/ Post2Response
    \/ SaveB64Item
    \/ SendGet
    \/ GetResponse
    \/ SaverReturn
    \/ CallVideo
    \/ VideoPostResponse
    \/ VideoSleep
    \/ VideoGetSend
    \/ VideoGetResponse
    \/ VideoExhausted

Spec == Init /\ [][Next]_vars

\* generate_images is one coroutine that is always resumed: the step after a
\* local computation runs at once, every awaited request is answered or ends
\* in the client's timeout (300 s for images, 600 s for video), and every
\* asyncio.sleep(retry_delay) ends
LiveSpec == Init /\ [][Next]_vars /\ WF_vars(Next)

GuardInit ==
    /\ pc = "probe"
    /\ video_config = FALSE
    /\ n = 0
    /\ source_image = "none"
    /\ Idle
    /\ B64Idle
    /\ ExtIdle
    /\ gname \in SeqsUpTo(NameChars, MaxNameLen)
    /\ gverdict = "untested"

GuardSpec == GuardInit /\ [][GuardProbe]_vars

\* item["b64_json"] is the standard encoding of some bytes, short of none, some
\* or all of its trailing padding
B64Init ==
    /\ pc = "b64"
    /\ video_config = FALSE
    /\ n = 0
    /\ source_image = "none"
    /\ Idle
    /\ ExtIdle
    /\ gname = <<>>
    /\ gverdict = "none"
    /\ b64_B \in SeqsUpTo(ByteVals, MaxBytes)
    /\ b64_data \in Strippings(b64encode(b64_B))
    /\ image_bytes = NoBytes

B64Spec == B64Init /\ [][RepadDecode]_vars

\* a download of either kind, with any content-type and any URL suffix
ExtInit ==
    /\ pc = "ext"
    /\ video_config = FALSE
    /\ n = 0
    /\ source_image = "none"
    /\ Idle
    /\ B64Idle
    /\ gname = <<>>
    /\ gverdict = "none"
    /\ dl_kind \in {"image", "video"}
    /\ content_type \in ExtCTypes
    /\ dl_url \in (IF dl_kind = "image" THEN ImageUrls ELSE VideoUrls)
    /\ dl_ext = "none"

ExtSpec == ExtInit /\ [][ChooseExt]_vars

-----------------------------------------------------------------------------
(* Properties *)

RECURSIVE Flatten(_)
Flatten(ss) == IF ss = <<>> THEN <<>> ELSE Head(ss) \o Flatten(Tail(ss))

Last(q) == q[Len(q)]

CeilHalf(k) == (k + 1) \div 2

\* the n of the first request of every batch, in the order of the requests
BatchSizes ==
    LET first == SelectSeq(posts, LAMBDA q : q.response_format = "b64_json")
    IN [i \in 1..Len(first) |-> first[i].n]

\* 2, 2, ..., and the rest
ExpectedSizes(k) == [i \in 1..CeilHalf(k) |-> Min(2, k - 2 * (i - 1))]

\* the image flow returned and no exception ever left a batch
AllBatchesSucceeded ==
    ~video_config /\ outcome = "returned" /\ batch_error = NoExc

\* C1: an image call with n >= 1 whose batches all succeed has issued exactly
\* ceil(n/2) batches, batch i asking for min(2, n - 2(i-1)) images, and returns the
\* concatenation of the batches' filename lists in the order of the batches.
C1_Batching ==
    (AllBatchesSucceeded /\ n >= 1) =>
        /\ BatchSizes = ExpectedSizes(n)
        /\ Len(batch_results) = CeilHalf(n)
        /\ all_filenames = Flatten(batch_results)

C1_Witness ==
    /\ AllBatchesSucceeded
    /\ n = 5
    /\ BatchSizes = <<2, 2, 1>>
    /\ Len(all_filenames) = 5

\* C2: in the image flow, when an exception leaves batch k: for k >= 2 the call
\* returns normally with exactly the filenames of batches 1..k-1 in order; for
\* k = 1 the call raises that exception and returns nothing.
C2_PartialResults ==
    (~video_config /\ batch_error # NoExc) =>
        /\ pc = "done"
        /\ IF Len(batch_results) >= 1
           THEN /\ outcome = "returned"
                /\ all_filenames = Flatten(batch_results)
                /\ error = NoExc
           ELSE /\ outcome = "raised"
                /\ error = batch_error
                /\ all_filenames = <<>>

C2_Witness ==
    /\ ~video_config
    /\ batch_error # NoExc
    /\ Len(batch_results) = 2
    /\ outcome = "returned"
    /\ Len(all_filenames) = 4

\* a 200 body without error object that cannot be interpreted: not JSON, no or
\* an empty data list, or a first item with neither b64_json nor url
Uninterpretable(r) ==
    \/ r.kind \in {"notjson", "nodata"}
    \/ (r.kind = "data" /\ r.items = <<>>)
    \/ (r.kind = "data" /\ r.items # <<>>
          /\ r.items[1].b64_json = NONE /\ r.items[1].url = NONE)

UrlsOf(items) == [i \in 1..Len(items) |-> items[i].url]

IsPrefix(p, q) == Len(p) <= Len(q) /\ SubSeq(q, 1, Len(p)) = p

\* every url-format request directly follows the b64_json request of its batch
\* and repeats its n: a batch sends at most two generation requests
AtMostTwoPosts ==
    \A i \in 1..Len(posts) :
        posts[i].response_format = "url" =>
            /\ i > 1
            /\ posts[i - 1].response_format = "b64_json"
            /\ posts[i - 1].n = posts[i].n
            /\ posts[i - 1].endpoint = posts[i].endpoint

\* C3 (state part): an uninterpretable first response puts the batch in its
\* handler; the response to the url-format request has its items downloaded, in
\* order, and all of them when the batch ends well; no batch sends a third request.
C3_State ==
    /\ (stage = "first" /\ Uninterpretable(resp)) =>
            (pc = "handler" /\ Last(posts) = ImagePost(current_n, "b64_json"))
    /\ (stage = "fallback" /\ pc # "post2") =>
            /\ IsPrefix(gets, UrlsOf(resp.items))
            /\ decoded = 0
            /\ (pc = "loop" => gets = UrlsOf(resp.items))
    /\ AtMostTwoPosts

\* C3 (step part): the handler does one thing: it sends one POST for the same
\* batch, with the same n and response_format "url".
C3_Step ==
    (pc = "handler") =>
        /\ pc' = "post2"
        /\ posts' = Append(posts, ImagePost(current_n, "url"))

\* C3: when the first response of a batch is a 200 body without error object
\* that cannot be interpreted, the adapter sends exactly one further POST for the
\* batch, with the same n and response_format "url", and downloads the items of
\* that response; a batch never sends more than two generation POSTs.
C3_Fallback == [](C3_State) /\ [][C3_Step]_vars

C3_Witness ==
    /\ stage = "fallback"
    /\ pc = "post2"
    /\ caught = Exc("ValueError", "Unknown response format")
    /\ posts = <<ImagePost(1, "b64_json"), ImagePost(1, "url")>>

\* C4: when the first generation POST of a batch fails at transport level,
\* returns a non-200 status, or returns 200 with a JSON error object, the error
\* leaves _generate_batch and no url-format POST is sent for that batch.
C4_NoRetryOnApiError ==
    (stage = "first" /\ resp.kind \in {"transport", "non200", "error"}) =>
        /\ pc = "done"
        /\ batch_error = FirstExc(resp)
        /\ caught = NoExc
        /\ Last(posts) = ImagePost(current_n, "b64_json")

C4_Witness ==
    /\ stage = "first"
    /\ resp.kind = "non200"
    /\ pc = "done"
    /\ outcome = "raised"
    /\ Len(posts) = 1

Gets(t) == Cardinality({i \in 1..Len(t) : t[i] = "get"})
Sleeps(t) == Cardinality({i \in 1..Len(t) : t[i] = "sleep"})

\* get, sleep, get, sleep, ...: every sleep lies between two GETs, none comes first
Alternates(t) ==
    \A i \in 1..Len(t) : t[i] = (IF i % 2 = 1 THEN "get" ELSE "sleep")

Is2xx(g) == g.kind = "response" /\ g.status \in 200..299

\* the observation "not ready": 404, or a 2xx body shorter than 1000 bytes
NotReadyObs(g) ==
    g.kind = "response" /\ (g.status = 404 \/ (Is2xx(g) /\ g.size < 1000))

\* C5: in _save_video_from_url, when attempts 1..k-1 observed "not ready" and
\* attempt k (1 <= k <= 12) returns 2xx with at least 1000 bytes, the call succeeds
\* having issued exactly k GETs and k-1 sleeps, every sleep between two
\* consecutive GETs and none before the first.
C5_PollSuccess ==
    (video_config /\ Is2xx(vget) /\ vget.size >= 1000) =>
        /\ pc = "done"
        /\ outcome = "returned"
        /\ attempt + 1 \in 1..12
        /\ Gets(trace) = attempt + 1
        /\ Sleeps(trace) = attempt
        /\ Alternates(trace)
        /\ Len(all_filenames) = 1
        /\ Cardinality(files) = 1

C5_Witness ==
    /\ video_config
    /\ outcome = "returned"
    /\ vget = [kind |-> "response", status |-> 200, size |-> 5000]
    /\ last_error = "404 Not Found"
    /\ trace = <<"get", "sleep", "get", "sleep", "get">>

\* C6: in _save_video_from_url, when the attempts observe 404 to the end, the
\* call issues exactly 12 GETs and then raises the terminal error, which names the
\* last observed condition; no file is written and no GET follows the 12th.
C6_Exhausted ==
    /\ (video_config /\ pc = "done" /\ vget.kind = "response" /\ vget.status = 404) =>
            /\ outcome = "raised"
            /\ error = [type |-> "ValueError", msg |-> "Video download failed",
                        last |-> "404 Not Found"]
            /\ Gets(trace) = 12
            /\ Last(trace) = "get"
            /\ files = {}
            /\ all_filenames = <<>>
            /\ inflight = 0
    /\ video_config => Gets(trace) <= 12

C6_Witness ==
    /\ video_config
    /\ pc = "done"
    /\ outcome = "raised"
    /\ vget.status = 404
    /\ Gets(trace) = 12
    /\ Sleeps(trace) = 11

\* C7: in _save_video_from_url, only "not ready" outcomes lead to another
\* attempt: a transport failure or a non-2xx status other than 404 on attempt k
\* ends the call with an error at once, with no sleep and no GET after attempt k.
C7_NoRetryOnError ==
    /\ (video_config /\ vget.kind # "none" /\ ~Is2xx(vget) /\ vget.status # 404) =>
            /\ pc = "done"
            /\ outcome = "raised"
            /\ error.type \in {"TransportError", "HTTPStatusError"}
            /\ Last(trace) = "get"
            /\ Gets(trace) = attempt + 1
            /\ Sleeps(trace) = attempt
            /\ inflight = 0
            /\ files = {}
    /\ (video_config /\ pc \in {"v_loop", "v_send", "v_get"} /\ attempt > 0) =>
            NotReadyObs(vget)

C7_Witness ==
    /\ video_config
    /\ vget = [kind |-> "response", status |-> 500, size |-> 0]
    /\ attempt = 2
    /\ pc = "done"
    /\ outcome = "raised"

\* the first response of the current batch is usable and still at hand
FirstData == ~video_config /\ stage = "first" /\ resp.kind = "data" /\ resp.items # <<>>

\* where the download of an item goes: its b64_json string, or else its url field
Target(item) == IF item.b64_json # NONE THEN item.b64_json ELSE item.url

\* C8: in _generate_batch, when the first item's b64_json of a successful
\* response holds an HTTP URL, every item goes the URL-download way: one GET per
\* item, in order, to the string in its b64_json (its url field when it has no
\* b64_json), nothing is base64-decoded, and no url-format request follows.
C8_UrlInB64 ==
    (FirstData /\ StartsWithHttp(resp.items[1].b64_json)) =>
        /\ pc \in {"save_url", "get", "loop", "done"}
        /\ decoded = 0
        /\ caught = NoExc
        /\ Last(posts).response_format = "b64_json"
        /\ Len(gets) <= Len(resp.items)
        /\ \A i \in 1..Len(gets) :
              Target(resp.items[i]) # NONE => gets[i] = Target(resp.items[i])
        /\ (pc = "loop" \/ (outcome = "returned" /\ batch_error = NoExc)) =>
              /\ Len(gets) = Len(resp.items)
              /\ Len(Last(batch_results)) = Len(resp.items)

C8_Witness ==
    /\ FirstData
    /\ pc = "loop"
    /\ resp.items = <<[b64_json |-> URLA, url |-> URLB], [b64_json |-> NONE, url |-> URLB]>>
    /\ gets = <<URLA, URLB>>
    /\ decoded = 0
    /\ Len(posts) = 1

\* a base64 payload proper: the (unpadded) base64 text of some bytes, and no URL
Genuine(s) == s \in {B64OK}

\* every item was decoded and written, and nothing was downloaded
AllDecoded ==
    /\ pc \in {"save_b64", "loop", "done"}
    /\ gets = <<>>
    /\ caught = NoExc
    /\ decoded <= Len(resp.items)
    /\ (pc = "loop" \/ (outcome = "returned" /\ batch_error = NoExc)) =>
          /\ decoded = Len(resp.items)
          /\ Len(Last(batch_results)) = Len(resp.items)
          /\ \A i \in 1..Len(resp.items) : Last(batch_results)[i].ext = "png"
    /\ batch_error.type \notin {"KeyError", "ValueError"}

\* C9 as stated: for every successful response whose first item's b64_json holds
\* a genuine base64 payload, every item of the batch is decoded and written and
\* no asset GET is issued.
C9_FirstGenuine ==
    (FirstData /\ Genuine(resp.items[1].b64_json)) => AllDecoded

\* C9 as amended: for every successful response in which every item's b64_json
\* holds a genuine base64 payload, every item of the batch is decoded (after
\* re-padding) and written, no asset GET is issued and no url-format request follows.
C9_AllGenuine ==
    (FirstData /\ \A i \in 1..Len(resp.items) : Genuine(resp.items[i].b64_json)) =>
        /\ AllDecoded
        /\ Last(posts).response_format = "b64_json"

C9_Witness ==
    /\ FirstData
    /\ pc = "loop"
    /\ resp.items = <<[b64_json |-> B64OK, url |-> NONE], [b64_json |-> B64OK, url |-> NONE]>>
    /\ decoded = 2
    /\ gets = <<>>
    /\ Cardinality(files) = 2

\* every file written so far lies below the output directory
FilesInside == \A f \in files : InsideOutput(f.path)

FragmentsOf(lines, ts) ==
    LET ps == SelectSeq(lines, LAMBDA l : l.t \in ts)
    IN [i \in 1..Len(ps) |-> ps[i].c]

\* a chunk that ends the call: an error object, or JSON that is no object
Aborts(lines) == \E i \in 1..Len(lines) : lines[i].t \in {"error", "nonobject"}

\* the assembly of a streamed answer ran to its end
Assembled == video_config /\ vresp.kind = "sse" /\ ~Aborts(vresp.lines)

\* C11: in _generate_video, for every 200 body that begins with "data:", the
\* assembled content is the concatenation, in line order, of the
\* choices[0].delta.content fragment of each data chunk; [DONE] and chunks that
\* cannot be parsed add nothing and do not stop the chunks after them.
C11_SseAssembly ==
    Assembled => full_content = FragmentsOf(vresp.lines, {"piece", "nospace"})

\* the same for the chunks that follow the prefix "data: " with its blank: this
\* much holds of the code
SseSpacedChunks ==
    Assembled => full_content = FragmentsOf(vresp.lines, {"piece"})

\* the answer to the video request was read to its end and is still at hand
Answered ==
    /\ video_config
    /\ vresp.kind \in {"message", "sse"}
    /\ ~(vresp.kind = "sse" /\ Aborts(vresp.lines))

\* the URL the three rules pick, in their order; <<>> when none applies
PriorityUrl(r, c) ==
    IF r.kind = "message" /\ r.url # NoUrl THEN r.url
    ELSE IF VideoExtMatch(c) # <<>> THEN VideoExtMatch(c)
    ELSE AnyUrlMatch(c)

\* the download starts from u / the call has failed before any asset GET
DownloadsFrom(u) == pc = "v_loop" /\ outcome = "running" /\ video_url = u
FailsBeforeGet == pc = "done" /\ outcome = "raised" /\ trace = <<>> /\ files = {}

\* C12: in _generate_video the URL handed to the download is (a) the url field
\* of choices[0].message when present, else (b) the first URL of the content
\* that ends in a video extension, even after a URL of another form, else (c)
\* the first URL of any form; with none of them the call fails without a GET.
C12_UrlPriority ==
    Answered =>
        IF PriorityUrl(vresp, full_content) # <<>>
        THEN DownloadsFrom(PriorityUrl(vresp, full_content))
        ELSE FailsBeforeGet

\* the same when the answer carries text content, or no url field: this much
\* holds of the code
UrlPriorityWithContent ==
    (Answered /\ (full_content # <<>> \/ vresp.url = NoUrl)) => C12_UrlPriority

\* rule (b) before rule (c): a video URL is taken although another URL comes first
VideoUrlAfterOther ==
    /\ Answered
    /\ vresp.url = NoUrl
    /\ full_content = <<HEAD, " ", HEAD, VEXT>>
    /\ DownloadsFrom(<<HEAD, VEXT>>)

\* C13: in _generate_video, for every non-SSE 200 answer whose
\* choices[0].message carries a direct url, the download starts from that URL,
\* whether or not the message also carries text content.
C13_DirectUrl ==
    (video_config /\ vresp.kind = "message" /\ vresp.url # NoUrl) =>
        DownloadsFrom(vresp.url)

\* the same when the message carries text content too: this much holds of the code
DirectUrlWithContent ==
    (video_config /\ vresp.kind = "message" /\ vresp.url # NoUrl /\ vresp.content # <<>>) =>
        DownloadsFrom(vresp.url)

\* C14: for every byte sequence B and every string S got from the standard
\* base64 encoding of B by removing some or all of its trailing "=", the re-pad
\* and decode step of _save_b64_images yields exactly B.
C14_RepadRoundTrip ==
    (pc = "b64" /\ image_bytes # NoBytes) =>
        image_bytes = [state |-> "ok", bytes |-> b64_B]

\* "aAD/aA", the encoding "aAD/aA==" of four bytes with both "=" removed
C14_Witness ==
    /\ pc = "b64"
    /\ b64_B = <<104, 0, 255, 104>>
    /\ b64_data = <<26, 0, 3, 63, 26, 0>>
    /\ image_bytes = [state |-> "ok", bytes |-> <<104, 0, 255, 104>>]

\* the type a content-type identifies for this kind of download, or "none"
CtKnown(kind, ct) ==
    CASE kind = "image" /\ ct \in {"image/jpeg", "image/jpg"} -> "jpg"
      [] kind = "image" /\ ct = "image/png"                   -> "png"
      [] kind = "video" /\ ct = "video/mp4"                   -> "mp4"
      [] kind = "video" /\ ct = "video/webm"                  -> "webm"
      [] OTHER                                                -> "none"

\* the type a URL suffix identifies for this kind of download, or "none"
SuffixKnown(kind, u) ==
    CASE kind = "image" /\ Suffix(u) = ".jpg"    -> "jpg"
      [] kind = "image" /\ Suffix(u) = ".png"    -> "png"
      [] kind = "video" /\ u[Len(u)] = VEXT      -> "mp4"
      [] kind = "video" /\ u[Len(u)] = ".webm"   -> "webm"
      [] OTHER                                   -> "none"

DefaultExt(kind) == IF kind = "image" THEN "jpg" ELSE "mp4"

ExtChosen == pc = "ext" /\ dl_ext # "none"

\* C15: for every content-type and URL suffix the extension of a downloaded
\* file is decided by the content-type first, by the URL suffix only when the
\* content-type identifies no known type, and by the default only when neither
\* does: a type the content-type identifies is the extension, whatever the suffix.
C15_ContentTypeFirst ==
    ExtChosen =>
        dl_ext = (IF CtKnown(dl_kind, content_type) # "none"
                  THEN CtKnown(dl_kind, content_type)
                  ELSE IF SuffixKnown(dl_kind, dl_url) # "none"
                  THEN SuffixKnown(dl_kind, dl_url)
                  ELSE DefaultExt(dl_kind))

\* the same unless the content-type says png (webm) and the suffix .jpg (.mp4):
\* this much holds of the code
ExtWithoutClash ==
    (ExtChosen /\ ~(/\ CtKnown(dl_kind, content_type) \in {"png", "webm"}
                    /\ SuffixKnown(dl_kind, dl_url) \in {"jpg", "mp4"})) =>
        C15_ContentTypeFirst

\* the POSTs sent so far to this endpoint
PostsTo(ep) == Cardinality({i \in 1..Len(posts) : posts[i].endpoint = ep})

\* C16 as stated: every call of generate_images with a video configuration,
\* whatever n, sends exactly one POST to /v1/chat/completions and no POST to
\* /v1/images/generations.
C16_OneChatPost ==
    (video_config /\ pc = "done") =>
        /\ PostsTo("/v1/chat/completions") = 1
        /\ PostsTo("/v1/images/generations") = 0

\* C16 as amended: a call with a video configuration sends no POST to
\* /v1/images/generations and at most one to /v1/chat/completions, whatever n:
\* exactly one once the payload is built, and none when the source image it
\* names cannot be read (the call fails before any request).
C16_OneChatPostIfBuilt ==
    video_config =>
        /\ PostsTo("/v1/images/generations") = 0
        /\ Len(posts) = PostsTo("/v1/chat/completions")
        /\ (pc # "start" /\ source_image # "missing") => Len(posts) = 1
        /\ (pc # "start" /\ source_image = "missing") =>
              /\ posts = <<>>
              /\ pc = "done"
              /\ outcome = "raised"
              /\ error.type = "FileNotFoundError"
        /\ pc = "start" => posts = <<>>

C16_Witness ==
    /\ video_config
    /\ n = MaxCount
    /\ source_image = "readable"
    /\ pc = "done"
    /\ outcome = "returned"
    /\ PostsTo("/v1/chat/completions") = 1
    /\ Len(posts) = 1

\* an image GET of the call was answered with a status that is not 2xx
ImageGetRefused ==
    ~video_config /\ "HTTPStatusError" \in {batch_error.type, caught.type}

\* C17: in the image flow, when the GET of an item's URL returns a non-2xx
\* status (404 included), the batch fails at once: that URL is requested once,
\* no later item is downloaded, nothing sleeps, and no url-format POST follows.
C17_ImageGetFails ==
    ImageGetRefused =>
        /\ pc = "done"
        /\ inflight = 0
        /\ batch_error.type = "HTTPStatusError"
        /\ caught = NoExc
        /\ Len(gets) = idx
        /\ gets[idx] = data[idx].url
        /\ Len(filenames) = idx - 1
        /\ trace = <<>>
        /\ Len(posts) = stamp
        /\ Last(posts).response_format = (IF stage = "first" THEN "b64_json" ELSE "url")
        /\ outcome = (IF all_filenames = <<>> THEN "raised" ELSE "returned")

C17_Witness ==
    /\ ImageGetRefused
    /\ stage = "first"
    /\ Len(data) = 2
    /\ idx = 1
    /\ gets = <<URLB>>
    /\ posts = <<ImagePost(2, "b64_json")>>
    /\ outcome = "raised"

\* the positions at which the coroutine awaits the answer to a request
Awaiting == pc \in {"post1", "post2", "get", "v_post", "v_get"}

\* C18: within one generate_images call at most one network request is in
\* flight at any time: a batch's generation POST is issued only after the
\* previous batch's POST, downloads and file writes have completed, and the
\* assets of a batch are downloaded one at a time, in item order.
C18_OneInFlight ==
    /\ inflight \in {0, 1}
    /\ inflight = 1 <=> Awaiting
    /\ pc = "post1" =>
          /\ gets = <<>>
          /\ Len(posts) >= Len(batch_results) + 1
          /\ Flatten(batch_results) = all_filenames
          /\ \A i \in 1..Len(all_filenames) : WrittenFile(all_filenames[i]) \in files
    /\ pc \in {"save_url", "get"} =>
          /\ IsPrefix(gets, UrlsOf(data))
          /\ Len(gets) = (IF pc = "get" THEN idx ELSE idx - 1)
          /\ Len(filenames) = idx - 1

C18_Witness ==
    /\ pc = "get"
    /\ inflight = 1
    /\ stage = "first"
    /\ Len(batch_results) = 1
    /\ Len(posts) = 2
    /\ idx = 2
    /\ Len(gets) = 2
    /\ Cardinality(files) = 3

\* C19: whenever generate_images (image flow, n >= 1) returns after every one
\* of its batches succeeded, the returned list holds exactly n filenames,
\* whatever the server answered to each batch.
C19_ExactlyN ==
    (AllBatchesSucceeded /\ n >= 1) => Len(all_filenames) = n

\* the same when every answer that was saved carried as many items as its
\* batch asked for: this much holds of the code
ExactAnswersGiveN ==
    (/\ AllBatchesSucceeded
     /\ n >= 1
     /\ \A i \in 1..Len(batch_results) : Len(batch_results[i]) = ExpectedSizes(n)[i]) =>
        Len(all_filenames) = n

\* the names the call returns (none when it raises)
Returned ==
    IF outcome = "returned" THEN {all_filenames[i] : i \in 1..Len(all_filenames)} ELSE {}

\* C20: every file written under the output directory during a generate_images
\* call is named in the list the call returns, and a call that raises has
\* written no file: nothing written by a batch that fails later, or that falls
\* back to the url format after saving some items, is left behind unreported.
C20_NoOrphans ==
    pc = "done" =>
        /\ \A f \in files : f.name \in Returned
        /\ outcome = "raised" => files = {}

\* the converse: every name the call returns is the name of a file it wrote;
\* this much holds of the code
ReturnedNamesWritten ==
    pc = "done" => \A f \in Returned : WrittenFile(f) \in files

-----------------------------------------------------------------------------
(* Termination and the number of requests *)

\* generate_images has returned or raised
Done == outcome # "running"

\* the step sends a request: a generation POST or an asset GET
SendsRequest == inflight' > inflight \/ posts' # posts

\* the call has sent no request of any kind
NoRequestSent == posts = <<>> /\ gets = <<>> /\ trace = <<>> /\ inflight = 0

\* a call that came back with the empty list
ReturnedEmpty == outcome = "returned" /\ all_filenames = <<>>

\* C21 as stated: for every count n and every sequence of server responses,
\* generate_images eventually returns or raises; the image flow sends at most
\* 2 * ceil(n / 2) generation POSTs and no request at all once a batch has
\* failed; the video flow sends one generation POST and at most 12 asset GETs;
\* and a call with n <= 0 returns the empty list without any request.
C21_TerminatesWithin ==
    /\ <>Done
    /\ [](~video_config => Len(posts) <= 2 * CeilHalf(n))
    /\ [][batch_error # NoExc => ~SendsRequest]_vars
    /\ [](video_config => Len(posts) <= 1 /\ Gets(trace) <= 12)
    /\ [](video_config /\ Done => Len(posts) = 1)
    /\ [](n <= 0 /\ Done => ReturnedEmpty /\ NoRequestSent)

\* C21 as the code has it: the call always ends; an image call sends at most
\* 2 * ceil(max(n, 0) / 2) POSTs, all to /v1/images/generations, and nothing
\* once an exception has left _generate_batch; an image call with n <= 0
\* returns the empty list without any request; a video call, whatever n, sends
\* at most one POST, to /v1/chat/completions (exactly one unless the source
\* image cannot be read, and then no request at all), no image GET, and at
\* most 12 asset GETs.
C21_TerminatesBounded ==
    /\ <>Done
    /\ [](~video_config =>
            /\ Len(posts) <= 2 * CeilHalf(IF n > 0 THEN n ELSE 0)
            /\ PostsTo("/v1/chat/completions") = 0
            /\ trace = <<>>)
    /\ [][batch_error # NoExc => ~SendsRequest]_vars
    /\ [](~video_config /\ n <= 0 /\ Done => ReturnedEmpty /\ NoRequestSent)
    /\ [](video_config =>
            /\ Len(posts) <= 1
            /\ PostsTo("/v1/images/generations") = 0
            /\ gets = <<>>
            /\ Gets(trace) <= 12
            /\ source_image = "missing" => NoRequestSent
            /\ (Done /\ source_image # "missing") => Len(posts) = 1)

\* an image call for MaxCount images that came back after spending the whole
\* allowance: every batch asked twice
C21_Witness ==
    /\ ~video_config
    /\ n = MaxCount
    /\ outcome = "returned"
    /\ batch_error = NoExc
    /\ Len(posts) = 2 * CeilHalf(n)

=============================================================================
